---- MODULE Spec2Model ----
(***************************************************************************)
(* A model of thumbnailer.py: the identifier extractor, the asset fetcher  *)
(* (download_thumbnail) and the directory scanner (scan_directory, main).  *)
(*                                                                         *)
(* A string is a sequence of one-character strings; a path is a sequence   *)
(* of parts relative to the scanned directory (<<name>> for an immediate   *)
(* child, <<dir, name>> for a file in a subdirectory).                     *)
(***************************************************************************)
EXTENDS Integers, Sequences, FiniteSets, TLC

(***************************************************************************)
(* Characters.  Ascii lists the characters the model uses in code-point    *)
(* order, so that Code preserves the order Python compares strings by.     *)
(***************************************************************************)
Digits == <<"0", "1", "2", "3", "4", "5", "6", "7", "8", "9">>

UpperCase ==
    <<"A", "B", "C", "D", "E", "F", "G", "H", "I", "J", "K", "L", "M",
      "N", "O", "P", "Q", "R", "S", "T", "U", "V", "W", "X", "Y", "Z">>

LowerCase ==
    <<"a", "b", "c", "d", "e", "f", "g", "h", "i", "j", "k", "l", "m",
      "n", "o", "p", "q", "r", "s", "t", "u", "v", "w", "x", "y", "z">>

Ascii ==
    <<"\n", " ", "(", "-", ".">> \o Digits \o UpperCase
        \o <<"[", "]", "_">> \o LowerCase

Range(s) == {s[i] : i \in 1..Len(s)}

Code(c) == CHOOSE i \in 1..Len(Ascii) : Ascii[i] = c

\* str.lower() on one character, then on a string
LowerChar(c) ==
    IF c \in Range(UpperCase)
    THEN LowerCase[CHOOSE i \in 1..Len(UpperCase) : UpperCase[i] = c]
    ELSE c

Lower(s) == [i \in 1..Len(s) |-> LowerChar(s[i])]

\* the character class [a-zA-Z0-9_-] of both patterns
IdChars == Range(LowerCase) \cup Range(UpperCase) \cup Range(Digits) \cup {"_", "-"}

\* the class [-_. (] of the trailing pattern
Separators == {"-", "_", ".", " ", "("}

\* the repetition count {11} of both patterns
IdLen == 11

None == <<>>

(***************************************************************************)
(* pathlib: PurePath.suffix and PurePath.stem of a name without            *)
(* separators.  The suffix starts at the last dot, unless that dot is the  *)
(* first or the last character of the name.                                *)
(***************************************************************************)
RFind(s, c) ==
    IF \E i \in 1..Len(s) : s[i] = c
    THEN CHOOSE i \in 1..Len(s) : s[i] = c /\ \A j \in (i + 1)..Len(s) : s[j] # c
    ELSE 0

Suffix(name) ==
    LET i == RFind(name, ".")
    IN  IF 1 < i /\ i < Len(name) THEN SubSeq(name, i, Len(name)) ELSE <<>>

Stem(name) ==
    LET i == RFind(name, ".")
    IN  IF 1 < i /\ i < Len(name) THEN SubSeq(name, 1, i - 1) ELSE name

(***************************************************************************)
(* The two patterns.  A match is given by the position of the first        *)
(* character of its group; re.search returns the leftmost match.           *)
(***************************************************************************)
IsToken(s, i) ==
    /\ i >= 1
    /\ i + IdLen - 1 <= Len(s)
    /\ \A k \in i..(i + IdLen - 1) : s[k] \in IdChars

\* _BRACKETED_RE matches with its group starting at i
BracketedAt(s, i) ==
    /\ i >= 2
    /\ s[i - 1] = "["
    /\ IsToken(s, i)
    /\ i + IdLen <= Len(s)
    /\ s[i + IdLen] = "]"

\* $ (no MULTILINE): the end of the string, or just before a final newline
AtDollar(s, e) ==
    \/ e = Len(s)
    \/ e = Len(s) - 1 /\ s[Len(s)] = "\n"

\* _TRAILING_RE matches with its group starting at i
TrailingAt(s, i) ==
    /\ IsToken(s, i)
    /\ i = 1 \/ s[i - 1] \in Separators
    /\ AtDollar(s, i + IdLen - 1)

Leftmost(S) == CHOOSE i \in S : \A j \in S : i <= j

BracketedSearch(s) ==
    LET M == {i \in 1..Len(s) : BracketedAt(s, i)}
    IN  IF M = {} THEN None ELSE SubSeq(s, Leftmost(M), Leftmost(M) + IdLen - 1)

TrailingSearch(s) ==
    LET M == {i \in 1..Len(s) : TrailingAt(s, i)}
    IN  IF M = {} THEN None ELSE SubSeq(s, Leftmost(M), Leftmost(M) + IdLen - 1)

\* extract_youtube_id with the two searches in the other order.
extract_youtube_id_TrailingFirst(name) ==
    LET stem == Stem(name)
    IN  IF TrailingSearch(stem) # None THEN TrailingSearch(stem)
        ELSE IF BracketedSearch(stem) # None THEN BracketedSearch(stem)
        ELSE None

extract_youtube_id(name) ==
    LET stem == Stem(name)
    IN  IF BracketedSearch(stem) # None THEN BracketedSearch(stem)
        ELSE IF TrailingSearch(stem) # None THEN TrailingSearch(stem)
        ELSE None

(***************************************************************************)
(* The directory.  Pool is the set of files the scanned directory may      *)
(* hold when the program starts; an output file is written at              *)
(* PosterPath(f).  fs maps every path to what is stored there:             *)
(*   "absent"   nothing                                                    *)
(*   "orig"     a file that was there before the first run                 *)
(*   "jpeg"     the JPEG a transcode that exited 0 wrote                   *)
(*   "partial"  what a transcode that exited non-zero left behind          *)
(***************************************************************************)
VideoId == <<"d", "Q", "w", "4", "w", "9", "W", "g", "X", "c", "Q">>

\* VIDEO_EXTENSIONS with the extension of the output files among them.
VIDEO_EXTENSIONS_WithJpg ==
    { <<".", "m", "p", "4">>, <<".", "m", "k", "v">>, <<".", "a", "v", "i">>,
      <<".", "m", "o", "v">>, <<".", "w", "m", "v">>, <<".", "f", "l", "v">>,
      <<".", "w", "e", "b", "m">>, <<".", "m", "4", "v">>, <<".", "t", "s">>,
      <<".", "m", "2", "t", "s">>, <<".", "3", "g", "p">>, <<".", "o", "g", "v">>,
      <<".", "j", "p", "g">> }

VIDEO_EXTENSIONS ==
    { <<".", "m", "p", "4">>, <<".", "m", "k", "v">>, <<".", "a", "v", "i">>,
      <<".", "m", "o", "v">>, <<".", "w", "m", "v">>, <<".", "f", "l", "v">>,
      <<".", "w", "e", "b", "m">>, <<".", "m", "4", "v">>, <<".", "t", "s">>,
      <<".", "m", "2", "t", "s">>, <<".", "3", "g", "p">>, <<".", "o", "g", "v">> }

PosterSuffix == <<"-", "p", "o", "s", "t", "e", "r", ".", "j", "p", "g">>

BracketMkv == << <<"a", "[">> \o VideoId \o <<"]", ".", "m", "k", "v">> >>
BracketMp4 == << <<"a", "[">> \o VideoId \o <<"]", ".", "m", "p", "4">> >>
NoIdMp4 == << <<"c", ".", "m", "p", "4">> >>
NotesTxt == << <<"n", ".", "t", "x", "t">> >>
SubdirTrailing == << <<"s">>, <<"b", "-">> \o VideoId \o <<".", "M", "P", "4">> >>

Pool == {BracketMkv, BracketMp4, NoIdMp4, NotesTxt, SubdirTrailing}

Name(p) == p[Len(p)]

Parent(p) == SubSeq(p, 1, Len(p) - 1)

\* video_file.parent / (video_file.stem + "-poster.jpg")
PosterPath(p) == Parent(p) \o << Stem(Name(p)) \o PosterSuffix >>

AllPaths == Pool \cup {PosterPath(p) : p \in Pool}

\* the most files the directory tree holds when the program first starts
MaxFiles == 2

\* the number of times the program is run over the directory
MaxRuns == 2

(***************************************************************************)
(* sorted(): Path objects compare by their parts, a part by code points.   *)
(***************************************************************************)
RECURSIVE StrLess(_, _)
StrLess(a, b) ==
    IF b = <<>> THEN FALSE
    ELSE IF a = <<>> THEN TRUE
    ELSE IF Code(Head(a)) # Code(Head(b)) THEN Code(Head(a)) < Code(Head(b))
    ELSE StrLess(Tail(a), Tail(b))

RECURSIVE PathLess(_, _)
PathLess(p, q) ==
    IF q = <<>> THEN FALSE
    ELSE IF p = <<>> THEN TRUE
    ELSE IF Head(p) # Head(q) THEN StrLess(Head(p), Head(q))
    ELSE PathLess(Tail(p), Tail(q))

RECURSIVE Sorted(_)
Sorted(S) ==
    IF S = {} THEN <<>>
    ELSE LET m == CHOOSE x \in S : \A y \in S \ {x} : PathLess(x, y)
         IN  <<m>> \o Sorted(S \ {m})

IsFile(f, p) == f[p] # "absent"

\* Glob with the pattern "**/*" whatever the flag.
Glob_AlwaysRecursive(f, recursive) ==
    {p \in AllPaths :
        /\ IsFile(f, p)
        /\ Lower(Suffix(Name(p))) \in VIDEO_EXTENSIONS}

\* directory.glob(pattern) filtered by is_file() and the suffix test
Glob(f, recursive) ==
    {p \in AllPaths :
        /\ IsFile(f, p)
        /\ recursive \/ Len(p) = 1
        /\ Lower(Suffix(Name(p))) \in VIDEO_EXTENSIONS}

(***************************************************************************)
(* State.                                                                  *)
(*   fs           the directory tree                                       *)
(*   fs0          fs as it was when the current run started                *)
(*   run          the number of runs started                               *)
(*   args         the parsed command line, the same for every run          *)
(*   pc           "idle"   no process has run yet                          *)
(*                "loop"   scan_directory is between two files             *)
(*                "yt"     download_thumbnail is about to run yt-dlp       *)
(*                "ff"     download_thumbnail is about to run ffmpeg       *)
(*                "exited" the process has ended                           *)
(*   video_files  the sorted list scan_directory built                     *)
(*   idx          the position in video_files of the file being handled    *)
(*   processed, skipped, failed   the three counters                       *)
(*   tmpdir       the temporary workspace: "none", "empty" or "thumb"      *)
(*   out          what the current run has printed, one tag a line group   *)
(*   summary      the counts of the summary line, None when not printed    *)
(*   exit_code    the exit status of the process, -1 while it runs         *)
(*   n_extract    the calls of extract_youtube_id in the current run       *)
(*   fetches      for every file, the calls of download_thumbnail made for *)
(*                it over all runs (n) and those that returned True (ok)   *)
(*   calls        the calls of download_thumbnail of the current run: the  *)
(*                file, the destination's content before the call and      *)
(*                after it, the exit codes of yt-dlp and ffmpeg (-1: not   *)
(*                run), the number of files yt-dlp left in the workspace   *)
(*                and how the call ended ("pending", "True", "False" or    *)
(*                "raised")                                                *)
(*   filename, video_id, xpc   a call of extract_youtube_id on its own:    *)
(*                its argument, its result, and "call" before it returns   *)
(*                and "returned" after                                     *)
(***************************************************************************)
VARIABLES fs, fs0, run, args, pc, video_files, idx, processed, skipped,
          failed, tmpdir, out, summary, exit_code, n_extract, fetches,
          calls, filename, video_id, xpc

xvars == <<filename, video_id, xpc>>

svars == <<fs, fs0, run, args, pc, video_files, idx, processed, skipped,
           failed, tmpdir, out, summary, exit_code, n_extract, fetches,
           calls>>

vars == <<svars, xvars>>

\* The command line: whether the directory argument resolves to a
\* directory, and the flags.  --verbose only selects whether the tools'
\* output is captured and replayed or passed through; no branch that changes
\* the state reads it, and it is left out.
Args == [is_dir : BOOLEAN, recursive : BOOLEAN, dry_run : BOOLEAN,
         skip_existing : BOOLEAN]

\* The directory before the first run: at most MaxFiles files of Pool, and
\* an output file already beside some of them.
InitialTrees ==
    {f \in [AllPaths -> {"absent", "orig"}] :
        /\ Cardinality({p \in Pool : IsFile(f, p)}) <= MaxFiles
        /\ \A q \in AllPaths \ Pool :
              IsFile(f, q) => \E p \in Pool : IsFile(f, p) /\ PosterPath(p) = q}

NoCall ==
    /\ filename = <<>>
    /\ video_id = None
    /\ xpc = "returned"

\* no process has run yet over tree f with command line a
Idle(f, a) ==
    /\ fs = f
    /\ fs0 = f
    /\ run = 0
    /\ args = a
    /\ pc = "idle"
    /\ video_files = <<>>
    /\ idx = 1
    /\ processed = 0
    /\ skipped = 0
    /\ failed = 0
    /\ tmpdir = "none"
    /\ out = <<>>
    /\ summary = None
    /\ exit_code = -1
    /\ n_extract = 0
    /\ fetches = [p \in Pool |-> [n |-> 0, ok |-> 0]]
    /\ calls = <<>>

Init ==
    /\ NoCall
    /\ \E f \in InitialTrees, a \in Args : Idle(f, a)

(***************************************************************************)
(* main and the head of scan_directory, up to the first file.              *)
(***************************************************************************)
\* ScanHead without the early return: an empty list runs the loop zero
\* times and reaches the summary.
ScanHead_NoEarlyReturn(found) ==
    IF found = <<>>
    THEN [out |-> <<"Found", "Summary">>, summary |-> <<0, 0, 0>>,
          exit_code |-> 0, pc |-> "exited"]
    ELSE [out |-> <<"Found">>, summary |-> None, exit_code |-> -1,
          pc |-> "loop"]

\* What scan_directory does with the list it built, before the loop: the
\* lines printed, and whether it returns at once.
ScanHead(found) ==
    IF found = <<>>
    THEN [out |-> <<"NoFiles">>, summary |-> None, exit_code |-> 0,
          pc |-> "exited"]
    ELSE [out |-> <<"Found">>, summary |-> None, exit_code |-> -1,
          pc |-> "loop"]

main ==
    /\ pc \in {"idle", "exited"}
    /\ run < MaxRuns
    /\ run' = run + 1
    /\ fs0' = fs
    /\ idx' = 1
    /\ processed' = 0
    /\ skipped' = 0
    /\ failed' = 0
    /\ n_extract' = 0
    /\ calls' = <<>>
    /\ UNCHANGED <<fs, args, tmpdir, fetches, xvars>>
    /\ IF ~args.is_dir
       THEN \* sys.exit(1) before scan_directory is called
            /\ out' = <<"Error">>
            /\ summary' = None
            /\ exit_code' = 1
            /\ pc' = "exited"
            /\ video_files' = <<>>
       ELSE LET found == Sorted(Glob(fs, args.recursive))
                head == ScanHead(found)
            IN  /\ video_files' = found
                /\ out' = head.out
                /\ summary' = head.summary
                /\ exit_code' = head.exit_code
                /\ pc' = head.pc

(***************************************************************************)
(* The body of the loop of scan_directory.                                 *)
(***************************************************************************)
cur == video_files[idx]

\* Decide without the dry-run check.
Decide_NoDryRun(file, f, a) ==
    IF extract_youtube_id(Name(file)) = None THEN "noid"
    ELSE IF a.skip_existing /\ IsFile(f, PosterPath(file)) THEN "exists"
    ELSE "fetch"

\* Decide without the skip-existing check.
Decide_NoSkipExisting(file, f, a) ==
    IF extract_youtube_id(Name(file)) = None THEN "noid"
    ELSE IF a.dry_run THEN "dry"
    ELSE "fetch"

\* Decide with the dry-run check made before the skip-existing check.
Decide_DryRunFirst(file, f, a) ==
    IF extract_youtube_id(Name(file)) = None THEN "noid"
    ELSE IF a.dry_run THEN "dry"
    ELSE IF a.skip_existing /\ IsFile(f, PosterPath(file)) THEN "exists"
    ELSE "fetch"

\* Decide with an existing output skipped whatever the flag.
Decide_AlwaysSkipExisting(file, f, a) ==
    IF extract_youtube_id(Name(file)) = None THEN "noid"
    ELSE IF IsFile(f, PosterPath(file)) THEN "exists"
    ELSE IF a.dry_run THEN "dry"
    ELSE "fetch"

\* The checks made for one file, in the order the loop makes them.
Decide(file, f, a) ==
    IF extract_youtube_id(Name(file)) = None THEN "noid"
    ELSE IF a.skip_existing /\ IsFile(f, PosterPath(file)) THEN "exists"
    ELSE IF a.dry_run THEN "dry"
    ELSE "fetch"

\* EndOfFile with the failure not counted.
EndOfFile_FailedNotCounted(lines, p, s, f) ==
    /\ processed' = p
    /\ skipped' = s
    /\ failed' = failed
    /\ idx' = idx + 1
    /\ IF idx = Len(video_files)
       THEN /\ out' = out \o lines \o <<"Summary">>
            /\ summary' = <<p, s, failed>>
            /\ exit_code' = 0
            /\ pc' = "exited"
       ELSE /\ out' = out \o lines
            /\ pc' = "loop"
            /\ UNCHANGED <<summary, exit_code>>

\* The end of one iteration: the counters, the next file, and after the
\* last file the summary and the normal end of the process.
EndOfFile(lines, p, s, f) ==
    /\ processed' = p
    /\ skipped' = s
    /\ failed' = f
    /\ idx' = idx + 1
    /\ IF idx = Len(video_files)
       THEN /\ out' = out \o lines \o <<"Summary">>
            /\ summary' = <<p, s, f>>
            /\ exit_code' = 0
            /\ pc' = "exited"
       ELSE /\ out' = out \o lines
            /\ pc' = "loop"
            /\ UNCHANGED <<summary, exit_code>>

SkipNoId ==
    /\ pc = "loop"
    /\ Decide(cur, fs, args) = "noid"
    /\ n_extract' = n_extract + 1
    /\ EndOfFile(<<"SKIP no id">>, processed, skipped + 1, failed)
    /\ UNCHANGED <<fs, fs0, run, args, video_files, tmpdir, fetches, calls,
                   xvars>>

SkipExisting ==
    /\ pc = "loop"
    /\ Decide(cur, fs, args) = "exists"
    /\ n_extract' = n_extract + 1
    /\ EndOfFile(<<"SKIP exists">>, processed, skipped + 1, failed)
    /\ UNCHANGED <<fs, fs0, run, args, video_files, tmpdir, fetches, calls,
                   xvars>>

SkipDryRun ==
    /\ pc = "loop"
    /\ Decide(cur, fs, args) = "dry"
    /\ n_extract' = n_extract + 1
    /\ EndOfFile(<<"PROC", "dry run">>, processed, skipped + 1, failed)
    /\ UNCHANGED <<fs, fs0, run, args, video_files, tmpdir, fetches, calls,
                   xvars>>

\* download_thumbnail is called and enters the scope of its workspace
StartFetch ==
    /\ pc = "loop"
    /\ Decide(cur, fs, args) = "fetch"
    /\ n_extract' = n_extract + 1
    /\ out' = out \o <<"PROC">>
    /\ tmpdir' = "empty"
    /\ fetches' = [fetches EXCEPT ![cur].n = @ + 1]
    /\ calls' = Append(calls, [file |-> cur,
                               pre |-> fs[PosterPath(cur)],
                               post |-> fs[PosterPath(cur)],
                               yt_rc |-> -1, thumbs |-> 0, ff_rc |-> -1,
                               ret |-> "pending"])
    /\ pc' = "yt"
    /\ UNCHANGED <<fs, fs0, run, args, video_files, idx, processed, skipped,
                   failed, summary, exit_code, xvars>>

(***************************************************************************)
(* download_thumbnail.                                                     *)
(***************************************************************************)
\* A workspace removed by hand before each return, and so not when an
\* exception leaves the scope.
TemporaryDirectoryExit_NotOnRaise(how) ==
    IF how = "raise" THEN tmpdir ELSE "none"

\* TemporaryDirectory.__exit__: how is "return" or "raise"
TemporaryDirectoryExit(how) == "none"

Ended(c, ret, post) == [c EXCEPT !.ret = ret, !.post = post]

SetLast(c) == [calls EXCEPT ![Len(calls)] = c]

\* Return with a loop that stops at the first failure.
Return_StopOnFailure(success, c, lines, newfs) ==
    /\ fs' = newfs
    /\ tmpdir' = TemporaryDirectoryExit("return")
    /\ calls' = SetLast(Ended(c, IF success THEN "True" ELSE "False",
                              newfs[PosterPath(cur)]))
    /\ fetches' = [fetches EXCEPT ![cur].ok = IF success THEN @ + 1 ELSE @]
    /\ IF success
       THEN EndOfFile(lines \o <<"OK">>, processed + 1, skipped, failed)
       ELSE /\ processed' = processed
            /\ skipped' = skipped
            /\ failed' = failed + 1
            /\ idx' = idx + 1
            /\ out' = out \o lines \o <<"FAILED", "Summary">>
            /\ summary' = <<processed, skipped, failed + 1>>
            /\ exit_code' = 0
            /\ pc' = "exited"
    /\ UNCHANGED <<fs0, run, args, video_files, n_extract, xvars>>

\* Return with a failed file handled again at the next iteration.
Return_RetryOnFailure(success, c, lines, newfs) ==
    /\ fs' = newfs
    /\ tmpdir' = TemporaryDirectoryExit("return")
    /\ calls' = SetLast(Ended(c, IF success THEN "True" ELSE "False",
                              newfs[PosterPath(cur)]))
    /\ fetches' = [fetches EXCEPT ![cur].ok = IF success THEN @ + 1 ELSE @]
    /\ IF success
       THEN EndOfFile(lines \o <<"OK">>, processed + 1, skipped, failed)
       ELSE /\ failed' = failed + 1
            /\ out' = out \o lines \o <<"FAILED">>
            /\ pc' = "loop"
            /\ UNCHANGED <<processed, skipped, idx, summary, exit_code>>
    /\ UNCHANGED <<fs0, run, args, video_files, n_extract, xvars>>

\* download_thumbnail returns success to the loop, which counts the file
Return(success, c, lines, newfs) ==
    /\ fs' = newfs
    /\ tmpdir' = TemporaryDirectoryExit("return")
    /\ calls' = SetLast(Ended(c, IF success THEN "True" ELSE "False",
                              newfs[PosterPath(cur)]))
    /\ fetches' = [fetches EXCEPT ![cur].ok = IF success THEN @ + 1 ELSE @]
    /\ IF success
       THEN EndOfFile(lines \o <<"OK">>, processed + 1, skipped, failed)
       ELSE EndOfFile(lines \o <<"FAILED">>, processed, skipped, failed + 1)
    /\ UNCHANGED <<fs0, run, args, video_files, n_extract, xvars>>

\* subprocess.run cannot start the tool: FileNotFoundError leaves the scope,
\* scan_directory and main, and the interpreter exits with status 1
Raise(c) ==
    /\ tmpdir' = TemporaryDirectoryExit("raise")
    /\ calls' = SetLast(Ended(c, "raised", fs[PosterPath(cur)]))
    /\ out' = out \o <<"Traceback">>
    /\ exit_code' = 1
    /\ pc' = "exited"
    /\ UNCHANGED <<fs, fs0, run, args, video_files, idx, processed, skipped,
                   failed, summary, n_extract, fetches, xvars>>

YtDlpNotLaunched ==
    /\ pc = "yt"
    /\ Raise(calls[Len(calls)])

\* YtDlpRuns with the exit code of yt-dlp tested: a non-zero code is a
\* failure whatever the workspace holds.
YtDlpRuns_ChecksExitCode(rc, n) ==
    /\ pc = "yt"
    /\ LET c == [calls[Len(calls)] EXCEPT !.yt_rc = rc, !.thumbs = n]
       IN  IF n = 0 \/ rc # 0
           THEN Return(FALSE, c, <<"No thumbnail">>, fs)
           ELSE /\ tmpdir' = "thumb"
                /\ calls' = SetLast(c)
                /\ pc' = "ff"
                /\ UNCHANGED <<fs, fs0, run, args, video_files, idx, processed,
                               skipped, failed, out, summary, exit_code,
                               n_extract, fetches, xvars>>

\* yt-dlp ran: it exited with rc and left n files in the workspace
YtDlpRuns(rc, n) ==
    /\ pc = "yt"
    /\ LET c == [calls[Len(calls)] EXCEPT !.yt_rc = rc, !.thumbs = n]
       IN  IF n = 0
           THEN Return(FALSE, c, <<"No thumbnail">>, fs)
           ELSE /\ tmpdir' = "thumb"
                /\ calls' = SetLast(c)
                /\ pc' = "ff"
                /\ UNCHANGED <<fs, fs0, run, args, video_files, idx, processed,
                               skipped, failed, out, summary, exit_code,
                               n_extract, fetches, xvars>>

FfmpegNotLaunched ==
    /\ pc = "ff"
    /\ Raise(calls[Len(calls)])

\* ffmpeg -y ran: it exited with rc and left `written` at the destination
\* ("keep": it never opened the output)
FfmpegRuns(rc, written) ==
    /\ pc = "ff"
    /\ rc = 0 => written = "jpeg"
    /\ rc # 0 => written \in {"keep", "partial"}
    /\ LET c == [calls[Len(calls)] EXCEPT !.ff_rc = rc]
           newfs == IF written = "keep" THEN fs
                    ELSE [fs EXCEPT ![PosterPath(cur)] = written]
       IN  IF rc # 0
           THEN Return(FALSE, c, <<"Conversion failed">>, newfs)
           ELSE Return(TRUE, c, <<>>, newfs)

Next ==
    \/ main
    \/ SkipNoId
    \/ SkipExisting
    \/ SkipDryRun
    \/ StartFetch
    \/ YtDlpNotLaunched
    \/ \E rc \in {0, 1}, n \in {0, 1} : YtDlpRuns(rc, n)
    \/ FfmpegNotLaunched
    \/ \E rc \in {0, 1}, w \in {"keep", "partial", "jpeg"} : FfmpegRuns(rc, w)

Spec == Init /\ [][Next]_vars

(***************************************************************************)
(* extract_youtube_id on its own: one call on a filename put together from *)
(* at most MaxPieces pieces.                                               *)
(***************************************************************************)
OtherId == <<"a", "_", "b", "-", "c", "0", "Z", "9", "x", "Y", "z">>

Pieces ==
    { <<"[">> \o VideoId \o <<"]">>,
      <<"[">> \o OtherId \o <<"]">>,
      <<"[">> \o SubSeq(VideoId, 1, IdLen - 1) \o <<"]">>,
      VideoId,
      <<"x">>, <<"-">>, <<" ">>, <<"(">>, <<".">>, <<"\n">>,
      <<".", "m", "p", "4">> }

\* the most pieces a filename is put together from
MaxPieces == 3

RECURSIVE Flatten(_)
Flatten(t) == IF t = <<>> THEN <<>> ELSE Head(t) \o Flatten(Tail(t))

Filenames == {Flatten(t) : t \in UNION {[1..n -> Pieces] : n \in 1..MaxPieces}}

InitExtract ==
    /\ filename \in Filenames
    /\ video_id = None
    /\ xpc = "call"
    /\ Idle([p \in AllPaths |-> "absent"],
            [is_dir |-> TRUE, recursive |-> FALSE, dry_run |-> FALSE,
             skip_existing |-> FALSE])

ExtractCall ==
    /\ xpc = "call"
    /\ video_id' = extract_youtube_id(filename)
    /\ xpc' = "returned"
    /\ UNCHANGED <<filename, svars>>

NextExtract == ExtractCall

SpecExtract == InitExtract /\ [][NextExtract]_vars

(***************************************************************************)
(* Properties.                                                             *)
(***************************************************************************)
Calls == 1..Len(calls)

LastCall == calls[Len(calls)]

InCall == pc \in {"yt", "ff"}

Handled == processed + skipped + failed

\* the position in video_files of the file of call k
Position(k) == CHOOSE i \in 1..Len(video_files) : video_files[i] = calls[k].file

\* C1: whenever download_thumbnail returns False, the destination holds
\* what it held before the call.
C1_FailureLeavesDestination ==
    \A k \in Calls : calls[k].ret = "False" => calls[k].post = calls[k].pre

\* C2: no exception leaves the handling of a file: a process that scanned
\* a directory ends without a traceback and with every file of its list
\* counted in one of the three counters.
C2_NoExceptionEscapes ==
    pc = "exited" /\ args.is_dir /\ run >= 1 =>
        /\ \A i \in 1..Len(out) : out[i] # "Traceback"
        /\ \A k \in Calls : calls[k].ret # "raised"
        /\ Handled = Len(video_files)

\* C3 as stated: with skip-existing in every run, download_thumbnail is
\* called at most once for each file over all runs.
C3_FetchedAtMostOnce ==
    args.skip_existing => \A p \in Pool : fetches[p].n <= 1

\* C3 as amended: with skip-existing in every run, download_thumbnail
\* returns True at most once for each file over all runs, and a run calls it
\* for no file whose output existed when the run started or exists at the
\* file's turn.
C3_SucceedsAtMostOnce ==
    args.skip_existing =>
        /\ \A p \in Pool : fetches[p].ok <= 1
        /\ \A k \in Calls :
              /\ calls[k].pre = "absent"
              /\ fs0[PosterPath(calls[k].file)] = "absent"

\* a second run with skip-existing that fetches again a file whose first
\* fetch failed, succeeds, and skips a file whose output now exists
C3_Witness ==
    /\ args.skip_existing
    /\ run = 2
    /\ pc = "exited"
    /\ \E p \in Pool : fetches[p].n = 2 /\ fetches[p].ok = 1
    /\ \E i \in 1..Len(out) : out[i] = "SKIP exists"

C4_FailedCount ==
    summary # None =>
        summary[3] = Cardinality({k \in Calls : calls[k].ret = "False"})

C4_LoopGoesOn ==
    InCall /\ LastCall'.ret = "False" =>
        /\ idx' = idx + 1
        /\ failed' = failed + 1
        /\ idx < Len(video_files) => pc' = "loop" /\ summary' = None
        /\ idx = Len(video_files) => summary' # None

\* C4: a call of download_thumbnail that returns False moves the loop to
\* the next file (or, after the last file, to the summary), and the Failed
\* count of the summary is the number of calls that returned False.
C4_FailureDoesNotStopTheScan == []C4_FailedCount /\ [][C4_LoopGoesOn]_vars

\* the first of two files failed, the second was fetched with success, and
\* the summary counts one failure
C4_Witness ==
    /\ summary # None
    /\ Len(calls) = 2
    /\ calls[1].ret = "False"
    /\ calls[2].ret = "True"
    /\ Position(1) < Position(2)
    /\ summary[3] = 1

\* C5: in a dry run download_thumbnail is never called and the directory
\* tree stays what it was when the run started.
C5_DryRunTouchesNothing ==
    args.dry_run =>
        /\ calls = <<>>
        /\ \A p \in Pool : fetches[p].n = 0
        /\ ~InCall
        /\ fs = fs0

\* a finished dry run over a file with an identifier and no output yet
C5_Witness ==
    /\ args.dry_run
    /\ summary # None
    /\ \E i \in 1..Len(video_files) :
          /\ extract_youtube_id(Name(video_files[i])) # None
          /\ ~IsFile(fs, PosterPath(video_files[i]))
    /\ \E i \in 1..Len(out) : out[i] = "dry run"

C6_CountersAddUp ==
    /\ Handled = idx - 1
    /\ idx <= Len(video_files) + 1
    /\ summary # None =>
          /\ summary = <<processed, skipped, failed>>
          /\ Handled = Len(video_files)

C6_OneCounterAStep ==
    run' = run =>
        /\ processed' >= processed /\ skipped' >= skipped /\ failed' >= failed
        /\ Handled' = Handled + (idx' - idx)
        /\ idx' \in {idx, idx + 1}

\* C6: the three counters add up to the number of files handled, a step
\* that handles a file adds one to exactly one of them, no step of a run
\* lowers one, and the summary prints them when they add up to the number of
\* files found.
C6_ExactlyOneTerminalState == []C6_CountersAddUp /\ [][C6_OneCounterAStep]_vars

\* a summary after one file was skipped and one succeeded
C6_Witness ==
    /\ summary # None
    /\ Len(video_files) = 2
    /\ processed = 1
    /\ skipped = 1

\* C7: outside a call of download_thumbnail no workspace exists, however
\* the last call ended.
C7_WorkspaceRemoved ==
    /\ ~InCall => tmpdir = "none"
    /\ calls # <<>> /\ LastCall.ret # "pending" => tmpdir = "none"

\* ffmpeg could not be started while the workspace held the thumbnail
C7_Witness ==
    /\ calls # <<>>
    /\ LastCall.ret = "raised"
    /\ LastCall.thumbs = 1
    /\ tmpdir = "none"

\* C8: the exit status is non-zero only when the directory argument is not
\* a directory, and then nothing was scanned.
C8_NonZeroOnlyForBadDirectory ==
    exit_code \notin {-1, 0} =>
        /\ ~args.is_dir
        /\ video_files = <<>>
        /\ n_extract = 0

\* C10: a run that finds no video file prints that none were found and
\* ends: no summary, no counts, no call of extract_youtube_id or
\* download_thumbnail.
C10_NoFilesNoSummary ==
    run >= 1 /\ args.is_dir /\ video_files = <<>> =>
        /\ out = <<"NoFiles">>
        /\ summary = None
        /\ n_extract = 0
        /\ calls = <<>>
        /\ fs = fs0
        /\ pc = "exited"
        /\ exit_code = 0

\* a run over a directory that holds files, none of them a candidate
C10_Witness ==
    /\ run >= 1
    /\ out = <<"NoFiles">>
    /\ \E p \in Pool : IsFile(fs, p)

\* s holds "[", IdLen characters of the identifier alphabet and "]" from
\* position i on
BracketTokenAt(s, i) ==
    /\ i + IdLen + 1 <= Len(s)
    /\ s[i] = "["
    /\ s[i + IdLen + 1] = "]"
    /\ \A k \in 1..IdLen : s[i + k] \in IdChars

BracketTokens(s) == {i \in 1..Len(s) : BracketTokenAt(s, i)}

FirstBracketToken(s) ==
    LET i == CHOOSE j \in BracketTokens(s) : \A k \in BracketTokens(s) : j <= k
    IN  [k \in 1..IdLen |-> s[i + k]]

\* the last IdLen characters of s are a token after a separator or the start
EndsWithToken(s) ==
    /\ Len(s) >= IdLen
    /\ \A k \in (Len(s) - IdLen + 1)..Len(s) : s[k] \in IdChars
    /\ Len(s) = IdLen \/ s[Len(s) - IdLen] \in Separators

\* C9 as stated: for a filename that holds a bracketed token, the result is
\* the leftmost bracketed token of the filename.
C9_BracketedTokenOfFilename ==
    xpc = "returned" /\ BracketTokens(filename) # {} =>
        video_id = FirstBracketToken(filename)

\* C9 as amended: for a filename whose stem holds a bracketed token, the
\* result is the leftmost bracketed token of the stem, whether or not the
\* stem also ends with a token of the trailing form.
C9_BracketedTokenOfStem ==
    xpc = "returned" /\ BracketTokens(Stem(filename)) # {} =>
        video_id = FirstBracketToken(Stem(filename))

\* a stem with a bracketed token that also ends with another token of the
\* trailing form
C9_Witness ==
    /\ xpc = "returned"
    /\ BracketTokens(Stem(filename)) # {}
    /\ EndsWithToken(Stem(filename))
    /\ video_id = OtherId
    /\ SubSeq(Stem(filename), Len(Stem(filename)) - IdLen + 1,
              Len(Stem(filename))) = VideoId

\* name ends with the extension e, letter case apart
HasExtension(name, e) ==
    /\ Len(name) > Len(e)
    /\ Lower(SubSeq(name, Len(name) - Len(e) + 1, Len(name))) = e

\* the paths whose name has a video extension
VideoPaths ==
    {p \in AllPaths : \E e \in VIDEO_EXTENSIONS : HasExtension(Name(p), e)}

\* p is an existing file of tree f with a video extension
IsVideo(f, p) == p \in VideoPaths /\ f[p] # "absent"

Listed == {video_files[i] : i \in 1..Len(video_files)}

\* the list is that of the video files the tree held when the run started
ListOfTheFlag ==
    run >= 1 /\ args.is_dir =>
        /\ ~args.recursive =>
              Listed = {p \in VideoPaths : IsVideo(fs0, p) /\ Len(p) = 1}
        /\ args.recursive => Listed = {p \in VideoPaths : IsVideo(fs0, p)}
        /\ Len(video_files) = Cardinality(Listed)
        /\ summary # None => Handled = Cardinality(Listed)

\* C11: the list of a non-recursive scan holds the video files that are
\* immediate children of the directory and none of a subdirectory; the list of
\* a recursive scan holds the video files of every depth; and a run that
\* reaches the summary has handled as many files as that.  The list is
\* built when the run starts, from the tree as it is then.
C11_RecursionFollowsTheFlag ==
    /\ []ListOfTheFlag
    /\ [][run' # run /\ args.is_dir =>
             /\ fs0' = fs
             /\ Listed' = {p \in VideoPaths :
                              /\ fs[p] # "absent"
                              /\ args.recursive \/ Len(p) = 1}]_vars

\* a finished non-recursive scan of a directory with a video file of its
\* own and one in a subdirectory
C11_Witness ==
    /\ run >= 1
    /\ args.is_dir
    /\ ~args.recursive
    /\ summary # None
    /\ IsVideo(fs0, SubdirTrailing)
    /\ \E p \in Listed : Len(p) = 1
    /\ SubdirTrailing \notin Listed

(***************************************************************************)
(* The order of the checks made for one file.                              *)
(***************************************************************************)
\* the lines the step prints
Printed == SubSeq(out', Len(out) + 1, Len(out'))

\* the step calls download_thumbnail for the file at hand
Invokes ==
    /\ Len(calls') = Len(calls) + 1
    /\ calls'[Len(calls')].file = cur
    /\ pc' = "yt"

HasId(p) == extract_youtube_id(Name(p)) # None

OutputExists(p) == fs[PosterPath(p)] # "absent"

\* the line of the first check the file fails
FirstFailed(p) ==
    IF ~HasId(p) THEN <<"SKIP no id">>
    ELSE IF args.skip_existing /\ OutputExists(p) THEN <<"SKIP exists">>
    ELSE <<"PROC", "dry run">>

\* C12: the checks of one file run in the order identifier, skip-existing,
\* dry-run, fetch: the step taken at a file's turn calls download_thumbnail
\* if and only if the file has an identifier, and not (skip-existing is on
\* and the output path exists), and dry-run is off; otherwise the file is
\* counted Skipped once, nothing else is counted, no call is made, and the
\* only line printed for it is that of the first check it fails.
C12_ChecksInFixedOrder ==
    [][pc = "loop" /\ vars' # vars =>
         LET eligible == /\ HasId(cur)
                         /\ ~(args.skip_existing /\ OutputExists(cur))
                         /\ ~args.dry_run
         IN  /\ Invokes <=> eligible
             /\ ~eligible =>
                   /\ skipped' = skipped + 1
                   /\ processed' = processed /\ failed' = failed
                   /\ idx' = idx + 1
                   /\ calls' = calls /\ fs' = fs
                   /\ \/ Printed = FirstFailed(cur)
                      \/ Printed = FirstFailed(cur) \o <<"Summary">>
             /\ eligible => skipped' = skipped /\ Printed = <<"PROC">>]_vars

\* a dry run with skip-existing has reported a file whose output exists as
\* skipped for that reason, and a file without an identifier for that one
C12_Witness ==
    /\ args.dry_run /\ args.skip_existing
    /\ \E i \in 1..Len(out) : out[i] = "SKIP exists"
    /\ \E i \in 1..Len(out) : out[i] = "SKIP no id"
    /\ summary # None

(***************************************************************************)
(* The result of download_thumbnail.                                       *)
(***************************************************************************)
\* what the record of every call says of its two commands and its result
ResultOfCalls ==
    /\ \A k \in Calls :
          /\ calls[k].ret \in {"True", "False"} =>
                /\ calls[k].yt_rc # -1
                /\ calls[k].thumbs >= 1 => calls[k].ff_rc # -1
                /\ calls[k].ret = "True" <=>
                      calls[k].thumbs >= 1 /\ calls[k].ff_rc = 0
          /\ calls[k].ff_rc # -1 => calls[k].yt_rc # -1 /\ calls[k].thumbs >= 1
          /\ calls[k].thumbs = 0 => calls[k].ff_rc = -1
    /\ pc = "ff" => LastCall.yt_rc # -1 /\ LastCall.thumbs >= 1
    /\ pc = "yt" => LastCall.yt_rc = -1 /\ LastCall.ff_rc = -1

\* C13: a call of download_thumbnail that returned reports success if and
\* only if yt-dlp left at least one file in the workspace and ffmpeg exited
\* with code 0, whatever the exit code of yt-dlp was; ffmpeg runs only
\* after yt-dlp has returned, and only when the workspace holds a file.  A
\* call that returned with a file in the workspace has run ffmpeg, so that
\* the exit code of yt-dlp alone never makes a call fail.
C13_SuccessIffFileAndTranscode ==
    /\ []ResultOfCalls
    /\ [][/\ pc' = "ff" => pc = "yt" /\ LastCall'.thumbs >= 1
          /\ pc = "ff" /\ vars' # vars =>
                calls'[Len(calls)].ret \in {"True", "False", "raised"}]_vars

\* a call has succeeded though yt-dlp exited non-zero, and another has
\* failed though yt-dlp exited zero
C13_Witness ==
    /\ \E k \in Calls : calls[k].yt_rc = 1 /\ calls[k].ret = "True"
    /\ \E k \in Calls : calls[k].yt_rc = 0 /\ calls[k].ret = "False"

(***************************************************************************)
(* What a failed transcode leaves at the destination.                      *)
(***************************************************************************)
\* the step skips the file at hand because its output already exists
SkipsAsExisting ==
    /\ pc = "loop"
    /\ vars' # vars
    /\ Head(Printed) = "SKIP exists"

\* C14: when ffmpeg exits non-zero the file is counted Failed, and what the
\* failed transcode left at the destination is never taken for a valid
\* asset: no file is skipped as already having its output, in the same or
\* in a later run, when the destination holds the leftover of a failed
\* transcode.
C14_LeftoverIsNotAnAsset ==
    [][/\ pc = "ff" /\ calls'[Len(calls)].ff_rc >= 1 =>
             /\ calls'[Len(calls)].ret = "False"
             /\ failed' = failed + 1 /\ processed' = processed
       /\ SkipsAsExisting => fs[PosterPath(cur)] # "partial"]_vars

(***************************************************************************)
(* One file at a time, in sorted order.                                    *)
(***************************************************************************)
\* the pairs of paths in the order sorted() puts them
PathOrder == {pq \in AllPaths \X AllPaths : PathLess(pq[1], pq[2])}

\* where the loop stands, and the calls it has made, in every state
OneFileAtHand ==
    /\ \A i, j \in 1..Len(video_files) :
          i < j => <<video_files[i], video_files[j]>> \in PathOrder
    /\ \A k, l \in Calls : k < l => Position(k) < Position(l)
    /\ \A k \in Calls : k < Len(calls) => calls[k].ret \in {"True", "False"}
    /\ pc = "loop" =>
          /\ idx \in 1..Len(video_files)
          /\ n_extract = idx - 1
          /\ Handled = idx - 1
          /\ \A k \in Calls :
                calls[k].ret \in {"True", "False"} /\ Position(k) < idx
    /\ InCall =>
          /\ idx \in 1..Len(video_files)
          /\ n_extract = idx
          /\ Handled = idx - 1
          /\ LastCall.file = cur /\ LastCall.ret = "pending"
    /\ summary # None => n_extract = Len(video_files)

\* C15: the files are handled one at a time in sorted order of their
\* paths: the list is strictly increasing, the file at hand is the idx-th,
\* it is classified only when every file before it has been handled to its
\* end, both commands of a fetch run while it is the file at hand, and in
\* one run download_thumbnail is called at most once for a file, in the
\* order of the list, never again after a failure.
C15_OneAtATimeInSortedOrder ==
    /\ []OneFileAtHand
    /\ [][run' = run =>
             /\ idx' \in {idx, idx + 1}
             /\ n_extract' \in {n_extract, n_extract + 1}
             /\ Len(calls') \in {Len(calls), Len(calls) + 1}
             /\ idx' = idx + 1 => ~InCall']_vars

\* a run has fetched two files one after the other, the first without
\* success, and reached its summary
C15_Witness ==
    /\ summary # None
    /\ Len(calls) = 2
    /\ calls[1].ret = "False" /\ calls[1].ff_rc = 1
    /\ calls[2].ret = "True"
    /\ Position(1) = 1 /\ Position(2) = 2

(***************************************************************************)
(* The trailing form.                                                      *)
(***************************************************************************)
LastChars(s) == SubSeq(s, Len(s) - IdLen + 1, Len(s))

\* C16: for a filename whose stem holds no bracketed token, the result is
\* the last 11 characters of the stem when they are all of the alphabet and
\* stand at the start of the stem or after a separator, and not-found in
\* every other case; so a stem shorter than 11 characters gives not-found
\* and a stem of exactly 11 alphabet characters gives the stem.
C16_TrailingTokenEndsTheStem ==
    xpc = "returned" /\ BracketTokens(Stem(filename)) = {} =>
        LET stem == Stem(filename)
        IN  /\ EndsWithToken(stem) => video_id = LastChars(stem)
            /\ ~EndsWithToken(stem) => video_id = None
            /\ Len(stem) < IdLen => video_id = None
            /\ Len(stem) = IdLen /\ Range(stem) \subseteq IdChars =>
                  video_id = stem

(***************************************************************************)
(* Files of one stem share one output path.                                *)
(***************************************************************************)
\* two files of the list in one directory, with one stem and two extensions
SameStem(p, q) ==
    /\ p # q
    /\ Parent(p) = Parent(q)
    /\ Stem(Name(p)) = Stem(Name(q))

\* download_thumbnail has been called for file p in this run
Fetched(p) == \E k \in Calls : calls[k].file = p

\* an earlier call of this run for the output path of p returned True
SucceededFor(p) ==
    \E k \in Calls :
        /\ calls[k].ret = "True"
        /\ PosterPath(calls[k].file) = PosterPath(p)

\* what C17 says with and without skip-existing of files sharing an output
\* path, but for "each such file is fetched"
OnePathInv ==
    /\ \A p, q \in Listed : SameStem(p, q) => PosterPath(p) = PosterPath(q)
    /\ args.skip_existing =>
          \A k, l \in Calls :
              k < l /\ calls[k].ret = "True" =>
                  PosterPath(calls[k].file) # PosterPath(calls[l].file)
    /\ \A k \in Calls :
          calls[k].ret = "True" => calls[k].post = "jpeg"

OnePathStep ==
    /\ pc = "loop" /\ vars' # vars /\ args.skip_existing /\ SucceededFor(cur) =>
          SkipsAsExisting /\ skipped' = skipped + 1 /\ calls' = calls
    /\ pc = "loop" /\ vars' # vars /\ ~args.skip_existing =>
          Head(Printed) # "SKIP exists"
    /\ pc = "ff" /\ calls'[Len(calls)].ret = "True" =>
          fs'[PosterPath(cur)] = "jpeg"

\* C17 as stated: files of one directory with one stem and different video
\* extensions have one output path; with skip-existing, once a fetch for
\* the path has succeeded every later file of that path is skipped, so that
\* at most one fetch a path succeeds in a run; without skip-existing every
\* such file has been fetched when the run ends, a later success writing
\* over the earlier output.
C17_EachFetchedWithoutSkipExisting ==
    /\ OnePathInv
    /\ summary # None /\ ~args.skip_existing =>
          \A p, q \in Listed : SameStem(p, q) => Fetched(p) /\ Fetched(q)

\* C17 as amended: the same, where without skip-existing an existing output
\* never makes a file skipped, and the files of one stem that carry an
\* identifier are each passed to download_thumbnail when dry-run is off
\* too; in a dry run none is.
C17_EachFetchedWithoutSkipExistingNorDryRun ==
    /\ [](/\ OnePathInv
          /\ summary # None /\ ~args.skip_existing /\ ~args.dry_run =>
                \A p, q \in Listed :
                    SameStem(p, q) /\ HasId(p) => Fetched(p) /\ Fetched(q)
          /\ args.dry_run => calls = <<>>)
    /\ [][OnePathStep /\
             (pc = "loop" /\ vars' # vars /\ ~args.skip_existing
                  /\ ~args.dry_run /\ HasId(cur) => Invokes)]_vars

\* without skip-existing two files of one stem have both been fetched with
\* success, the second over the output of the first
C17_Witness ==
    /\ ~args.skip_existing /\ ~args.dry_run
    /\ summary # None
    /\ Len(calls) = 2
    /\ SameStem(calls[1].file, calls[2].file)
    /\ calls[1].ret = "True" /\ calls[2].ret = "True"
    /\ calls[1].pre = "absent" /\ calls[2].pre = "jpeg"

(***************************************************************************)
(* The list of a run.                                                      *)
(***************************************************************************)
\* the files of tree f the scan lists: the video files, of the directory
\* itself or of every depth
Candidates(f) ==
    {p \in VideoPaths : IsVideo(f, p) /\ (args.recursive \/ Len(p) = 1)}

\* no output path has a video extension
OutputsAreNotVideos ==
    \A p \in Pool :
        \A e \in VIDEO_EXTENSIONS : ~HasExtension(Name(PosterPath(p)), e)

\* C18: the list of a run is fixed when the scan starts: it does not change
\* during the run, and the files download_thumbnail writes neither add a
\* candidate nor remove one, so that the list is at every moment what a
\* scan of the tree as it is now would list; an output file is not a
\* candidate of the run that wrote it nor of a later one, its extension
\* not being a video extension.
C18_ListFixedAtScanStart ==
    /\ [](/\ OutputsAreNotVideos
          /\ \A p \in Pool : PosterPath(p) \notin Listed
          /\ run >= 1 /\ args.is_dir =>
                /\ Listed = Candidates(fs0)
                /\ Candidates(fs) = Candidates(fs0)
                /\ \A k \in Calls : PosterPath(calls[k].file) \notin Listed)
    /\ [][run' = run => video_files' = video_files]_vars

\* a second run lists two files, the output of one written by the first
\* run and the output of the other by this one
C18_Witness ==
    /\ run = 2
    /\ \E p, q \in Listed :
          /\ fs0[PosterPath(p)] = "jpeg"
          /\ fs0[PosterPath(q)] = "absent" /\ fs[PosterPath(q)] = "jpeg"

====
